---- MODULE Spec2Model ----
(***************************************************************************)
(* A model of package config (jgpruitt/config): the line classifier, the   *)
(* parser Read, and the Config typed-access layer.                         *)
(*                                                                         *)
(* Strings are TLA+ strings; a character is a string of length 1.  Go's    *)
(* byte length and the character length agree because every character of   *)
(* the model is ASCII.                                                     *)
(***************************************************************************)
EXTENDS Integers, Sequences, FiniteSets, TLC

VARIABLES
    text,    \* the whole content the io.Reader delivers (never changes)
    ioerr,   \* TRUE: the reader ends with an I/O error instead of io.EOF
    rest,    \* the part of text that bufio has not handed out yet
    m,       \* Read's map[string]*Config: section name -> (key -> value)
    cfg,     \* Read's cfg pointer, as the name of the Config it points to
    lnum,    \* Read's line counter
    pc,      \* "read": inside Read's loop; "done": Read has returned
    res,     \* what Read returned: [cfgs |-> "m" or "nil", err |-> ...]
    out,     \* what the last accessor call returned
    setlog   \* ghost: <<section, key>> -> argument of the latest Set

vars == <<text, ioerr, rest, m, cfg, lnum, pc, res, out, setlog>>

----------------------------------------------------------------------------
(* Bounds of the model. *)

MaxLines == 4

MaxOddLines == 2

----------------------------------------------------------------------------
(* Strings. *)

At(s, i) == SubSeq(s, i, i)

From(s, i) == SubSeq(s, i, Len(s))

\* unicode.IsSpace, over the characters of the model
IsSpace(c) == c \in {" ", "\t", "\n", "\r"}

\* strings.IndexByte: the first index (from 1) of c in s, 0 when there is none
Index(s, c) ==
    IF \E i \in 1..Len(s) : At(s, i) = c
    THEN CHOOSE i \in 1..Len(s) : At(s, i) = c /\ \A j \in 1..(i - 1) : At(s, j) # c
    ELSE 0

ContainsRune(s, c) == Index(s, c) > 0

HasPrefix(s, p) == Len(s) >= Len(p) /\ SubSeq(s, 1, Len(p)) = p

HasSuffix(s, p) == Len(s) >= Len(p) /\ From(s, Len(s) - Len(p) + 1) = p

\* strings.TrimLeftFunc(s, unicode.IsSpace)
RECURSIVE TrimLeftSpace(_)
TrimLeftSpace(s) ==
    IF s # "" /\ IsSpace(Head(s)) THEN TrimLeftSpace(Tail(s)) ELSE s

\* strings.TrimRightFunc(s, unicode.IsSpace)
RECURSIVE TrimRightSpace(_)
TrimRightSpace(s) ==
    IF s # "" /\ IsSpace(At(s, Len(s)))
    THEN TrimRightSpace(SubSeq(s, 1, Len(s) - 1))
    ELSE s

TrimSpace(s) == TrimRightSpace(TrimLeftSpace(s))

----------------------------------------------------------------------------
(* The line classifier. *)

isComment(line) == HasPrefix(line, "#")

isEmpty(line) == line = ""

\* an isKeyValue without the test of the length
isKeyValueAnyLength(line) == ContainsRune(line, "=")

isKeyValue(line) == ContainsRune(line, "=") /\ Len(line) >= 3

\* the index of the last c in s, 0 when there is none
RECURSIVE LastIndex(_, _)
LastIndex(s, c) ==
    IF s = "" THEN 0
    ELSE IF At(s, Len(s)) = c THEN Len(s)
    ELSE LastIndex(SubSeq(s, 1, Len(s) - 1), c)

\* a parseKeyValue that splits at the last '='
parseKeyValueAtLast(line) ==
    LET i == LastIndex(line, "=")
    IN  [key   |-> TrimRightSpace(SubSeq(line, 1, i - 1)),
         value |-> TrimLeftSpace(From(line, i + 1))]

\* a parseKeyValue that trims neither part
parseKeyValueUntrimmed(line) ==
    LET i == Index(line, "=")
    IN  [key |-> SubSeq(line, 1, i - 1), value |-> From(line, i + 1)]

\* strings.SplitN(line, "=", 2), then the key right-trimmed and the value
\* left-trimmed
parseKeyValue(line) ==
    LET i == Index(line, "=")
    IN  [key   |-> TrimRightSpace(SubSeq(line, 1, i - 1)),
         value |-> TrimLeftSpace(From(line, i + 1))]

isName(line) == HasSuffix(line, ":") /\ Len(line) >= 2

\* a parseName that takes one ':' off the end and then the whitespace
parseNameOneColon(line) == TrimRightSpace(SubSeq(line, 1, Len(line) - 1))

\* strings.TrimRightFunc(line, ':' == r || unicode.IsSpace(r))
RECURSIVE parseName(_)
parseName(line) ==
    IF line # "" /\ (At(line, Len(line)) = ":" \/ IsSpace(At(line, Len(line))))
    THEN parseName(SubSeq(line, 1, Len(line) - 1))
    ELSE line

----------------------------------------------------------------------------
(* Errors. *)

Nil == "nil"

EOF == "EOF"

\* an error of the underlying reader that is not io.EOF
ErrIO == "io error"

ErrKeyNotFound == "key not found"

ErrParseValue == "failed to parse value into given type"

\* the line counter is one more than the number of lines before this one
ErrUnrecognizedZeroBased(n, line) ==
    "unrecognized input at line " \o ToString(n - 1) \o ": " \o line

\* fmt.Errorf("unrecognized input at line %d: %s", lnum, line)
ErrUnrecognized(n, line) ==
    "unrecognized input at line " \o ToString(n) \o ": " \o line

----------------------------------------------------------------------------
(* The input. *)

\* the raw lines an input is made of
Lines == {"k=v", " k = w ", "j\t=\tv", "s:", "t :", "#c", "", "?"}

RECURSIVE Join(_)
Join(ls) == IF Len(ls) = 1 THEN ls[1] ELSE ls[1] \o "\n" \o Join(Tail(ls))

Inputs == {Join(ls) : ls \in UNION {[1..n -> Lines] : n \in 1..MaxLines}}

\* a ReadString that gives up the text after the last delim at the end of
\* the stream
ReadStringDropsLast(s, delim, fails) ==
    LET i == Index(s, delim)
    IN  IF i > 0
        THEN [line |-> SubSeq(s, 1, i), rest |-> From(s, i + 1), err |-> Nil]
        ELSE [line |-> "", rest |-> "", err |-> IF fails THEN ErrIO ELSE EOF]

\* bufio.Reader.ReadString(delim) on a reader that still holds s: the text
\* up to and including the first delim, or everything left together with
\* the error that ends the stream
ReadString(s, delim, fails) ==
    LET i == Index(s, delim)
    IN  IF i > 0
        THEN [line |-> SubSeq(s, 1, i), rest |-> From(s, i + 1), err |-> Nil]
        ELSE [line |-> s, rest |-> "", err |-> IF fails THEN ErrIO ELSE EOF]

----------------------------------------------------------------------------
(* Read. *)

NoCall == [op |-> "none"]

NoSets == <<>>

\* a Read that starts with an empty map
ReadInitNoDefault(t, fails) ==
    /\ text = t
    /\ ioerr = fails
    /\ rest = t
    /\ m = <<>>
    /\ cfg = ""
    /\ lnum = 0
    /\ pc = "read"
    /\ res = [cfgs |-> Nil, err |-> Nil]
    /\ out = NoCall
    /\ setlog = NoSets

\* Read up to the loop: the "" Config is made and registered first
ReadInit(t, fails) ==
    /\ text = t
    /\ ioerr = fails
    /\ rest = t
    /\ m = [n \in {""} |-> <<>>]
    /\ cfg = ""
    /\ lnum = 0
    /\ pc = "read"
    /\ res = [cfgs |-> Nil, err |-> Nil]
    /\ out = NoCall
    /\ setlog = NoSets

Init == \E t \in Inputs, fails \in BOOLEAN : ReadInit(t, fails)

\* the line this iteration of the loop gets
Got == ReadString(rest, "\n", ioerr)

Line == TrimSpace(Got.line)

\* a store that keeps the value a key already has
StoreKeepFirst(mm, name, key, value) ==
    [mm EXCEPT ![name] = [k \in DOMAIN mm[name] \cup {key} |->
                             IF k \in DOMAIN mm[name] THEN mm[name][k] ELSE value]]

\* m with key -> value stored in the Config called name
Store(mm, name, key, value) ==
    [mm EXCEPT ![name] = [k \in DOMAIN mm[name] \cup {key} |->
                             IF k = key THEN value ELSE mm[name][k]]]

\* a name line that always makes a new Config
RegisterFresh(mm, name) ==
    [n \in DOMAIN mm \cup {name} |-> IF n = name THEN <<>> ELSE mm[n]]

\* a name line that registers nothing
RegisterNothing(mm, name) == mm

\* m with an empty Config registered under name, unless one is there
Register(mm, name) ==
    IF name \in DOMAIN mm
    THEN mm
    ELSE [n \in DOMAIN mm \cup {name} |-> IF n = name THEN <<>> ELSE mm[n]]

\* the end of an iteration: break and return m, nil at io.EOF, else loop
LoopEnd ==
    /\ rest' = Got.rest
    /\ lnum' = lnum + 1
    /\ IF Got.err = EOF
       THEN pc' = "done" /\ res' = [cfgs |-> "m", err |-> Nil]
       ELSE pc' = "read" /\ UNCHANGED res
    /\ UNCHANGED <<text, ioerr, out, setlog>>

\* a Read that takes the text read before the failure for a line
ReadIOErrorAsLine ==
    /\ pc = "read"
    /\ Got.err = ErrIO
    /\ rest' = Got.rest
    /\ pc' = "done"
    /\ res' = [cfgs |-> Nil, err |-> ErrUnrecognized(lnum + 1, Line)]
    /\ UNCHANGED <<text, ioerr, m, cfg, lnum, out, setlog>>

\* ReadString failed with an error other than io.EOF: return nil, err
ReadIOError ==
    /\ pc = "read"
    /\ Got.err = ErrIO
    /\ rest' = Got.rest
    /\ pc' = "done"
    /\ res' = [cfgs |-> Nil, err |-> ErrIO]
    /\ UNCHANGED <<text, ioerr, m, cfg, lnum, out, setlog>>

\* a Read that goes back to the "" Config at a comment or an empty line
ReadIgnoreResetsSection ==
    /\ pc = "read"
    /\ Got.err # ErrIO
    /\ isComment(Line) \/ isEmpty(Line)
    /\ m' = m
    /\ cfg' = ""
    /\ LoopEnd

\* a comment or an empty line: ignored
ReadIgnore ==
    /\ pc = "read"
    /\ Got.err # ErrIO
    /\ isComment(Line) \/ isEmpty(Line)
    /\ UNCHANGED <<m, cfg>>
    /\ LoopEnd

\* a key/value line: stored in the current Config
ReadKeyValue ==
    /\ pc = "read"
    /\ Got.err # ErrIO
    /\ ~(isComment(Line) \/ isEmpty(Line))
    /\ isKeyValue(Line)
    /\ LET kv == parseKeyValue(Line)
       IN  m' = Store(m, cfg, kv.key, kv.value)
    /\ UNCHANGED cfg
    /\ LoopEnd

\* a Read that takes a line for a name line before it looks for '='
ReadNameBeforeKeyValue ==
    /\ pc = "read"
    /\ Got.err # ErrIO
    /\ ~(isComment(Line) \/ isEmpty(Line))
    /\ isName(Line)
    /\ LET name == parseName(Line)
       IN  /\ m' = Register(m, name)
           /\ cfg' = name
    /\ LoopEnd

\* a name line: its Config is made if it is new, and becomes the current one
ReadName ==
    /\ pc = "read"
    /\ Got.err # ErrIO
    /\ ~(isComment(Line) \/ isEmpty(Line))
    /\ ~isKeyValue(Line)
    /\ isName(Line)
    /\ LET name == parseName(Line)
       IN  /\ m' = Register(m, name)
           /\ cfg' = name
    /\ LoopEnd

\* an unrecognized line that is skipped like a comment
ReadUnrecognizedSkipped ==
    /\ pc = "read"
    /\ Got.err # ErrIO
    /\ ~(isComment(Line) \/ isEmpty(Line))
    /\ ~isKeyValue(Line)
    /\ ~isName(Line)
    /\ UNCHANGED <<m, cfg>>
    /\ LoopEnd

\* any other line: return nil and the error
ReadUnrecognized ==
    /\ pc = "read"
    /\ Got.err # ErrIO
    /\ ~(isComment(Line) \/ isEmpty(Line))
    /\ ~isKeyValue(Line)
    /\ ~isName(Line)
    /\ rest' = Got.rest
    /\ lnum' = lnum + 1
    /\ pc' = "done"
    /\ res' = [cfgs |-> Nil, err |-> ErrUnrecognized(lnum + 1, Line)]
    /\ UNCHANGED <<text, ioerr, m, cfg, out, setlog>>

Next ==
    \/ ReadIOError
    \/ ReadIgnore
    \/ ReadKeyValue
    \/ ReadName
    \/ ReadUnrecognized

Spec == Init /\ [][Next]_vars

\* Read's loop as a function: what Read returns when it enters an iteration
\* with the reader holding rst, the map mm, the current Config cur and n
\* lines read
RECURSIVE ReadLoop(_, _, _, _, _)
ReadLoop(rst, mm, cur, n, fails) ==
    LET got == ReadString(rst, "\n", fails)
        line == TrimSpace(got.line)
        kv == parseKeyValue(line)
        name == parseName(line)
    IN  IF got.err = ErrIO THEN [cfgs |-> Nil, err |-> ErrIO]
        ELSE IF isComment(line) \/ isEmpty(line)
        THEN IF got.err = EOF THEN [cfgs |-> mm, err |-> Nil]
             ELSE ReadLoop(got.rest, mm, cur, n + 1, fails)
        ELSE IF isKeyValue(line)
        THEN IF got.err = EOF
             THEN [cfgs |-> Store(mm, cur, kv.key, kv.value), err |-> Nil]
             ELSE ReadLoop(got.rest, Store(mm, cur, kv.key, kv.value), cur, n + 1, fails)
        ELSE IF isName(line)
        THEN IF got.err = EOF THEN [cfgs |-> Register(mm, name), err |-> Nil]
             ELSE ReadLoop(got.rest, Register(mm, name), name, n + 1, fails)
        ELSE [cfgs |-> Nil, err |-> ErrUnrecognized(n + 1, line)]

\* Read(r) for a reader r that holds t
ReadAll(t, fails) == ReadLoop(t, [n \in {""} |-> <<>>], "", 0, fails)

\* lines at the edges of the classifier and of the two parsers
OddLines == {"#a=b", "#s:", "k=v:", "=", "a=", "=b", ":", "a=b=c", "x = y",
             "true = false", "bar :", "baz buz:", "a:b:", "s: :"}

OddInputs == {Join(ls) : ls \in UNION {[1..n -> OddLines] : n \in 1..MaxOddLines}}

InitLines == \E t \in OddInputs, fails \in BOOLEAN : ReadInit(t, fails)

SpecLines == InitLines /\ [][Next]_vars

----------------------------------------------------------------------------
(* Numerals.  An integer value is its sign and its decimal magnitude, a    *)
(* digit string without leading zeros, so that 64-bit values are exact.    *)

Digits == {"0", "1", "2", "3", "4", "5", "6", "7", "8", "9"}

IsDigit(c) == c \in Digits

DigitVal(c) ==
    CASE c = "0" -> 0 [] c = "1" -> 1 [] c = "2" -> 2 [] c = "3" -> 3
      [] c = "4" -> 4 [] c = "5" -> 5 [] c = "6" -> 6 [] c = "7" -> 7
      [] c = "8" -> 8 [] c = "9" -> 9

\* the longest prefix of s made of digits
RECURSIVE DigitRun(_)
DigitRun(s) ==
    IF s # "" /\ IsDigit(Head(s)) THEN Head(s) \o DigitRun(Tail(s)) ELSE ""

\* a digit string without its leading zeros ("0" for zero)
RECURSIVE Norm(_)
Norm(d) == IF Len(d) > 1 /\ Head(d) = "0" THEN Norm(Tail(d)) ELSE d

\* a < b for digit strings of the same length
RECURSIVE LexLess(_, _)
LexLess(a, b) ==
    /\ a # ""
    /\ \/ DigitVal(Head(a)) < DigitVal(Head(b))
       \/ Head(a) = Head(b) /\ LexLess(Tail(a), Tail(b))

\* a < b for magnitudes without leading zeros
MagLess(a, b) == Len(a) < Len(b) \/ (Len(a) = Len(b) /\ LexLess(a, b))

\* the number a short digit string denotes
RECURSIVE ToNat(_)
ToNat(d) ==
    IF d = "" THEN 0 ELSE 10 * ToNat(SubSeq(d, 1, Len(d) - 1)) + DigitVal(At(d, Len(d)))

IntVal(neg, mag) == [neg |-> neg /\ mag # "0", mag |-> mag]

Zero == IntVal(FALSE, "0")

\* strconv.IntSize on a 64-bit build: the width bitSize 0 stands for
IntSize == 64

Width(bitSize) == IF bitSize = 0 THEN IntSize ELSE bitSize

\* 1<<bitSize - 1
MaxUint(bits) ==
    CASE bits = 32 -> "4294967295"
      [] bits = 64 -> "18446744073709551615"

\* 1 << (bitSize - 1)
Cutoff(bits) ==
    CASE bits = 32 -> "2147483648"
      [] bits = 64 -> "9223372036854775808"

\* 1<<(bitSize-1) - 1
MaxInt(bits) ==
    CASE bits = 32 -> "2147483647"
      [] bits = 64 -> "9223372036854775807"

ErrSyntax == "strconv: invalid syntax"

ErrRange == "strconv: value out of range"

\* strconv.ParseUint(s, 10, bitSize): digits only; the scan stops with
\* ErrRange at the digit that passes the maximum, with ErrSyntax at a
\* character that is no digit
ParseUint(s, bitSize) ==
    LET d == DigitRun(s)
        bits == Width(bitSize)
    IN  IF d = "" THEN [val |-> "0", err |-> ErrSyntax]
        ELSE IF MagLess(MaxUint(bits), Norm(d))
             THEN [val |-> MaxUint(bits), err |-> ErrRange]
        ELSE IF Len(d) < Len(s) THEN [val |-> "0", err |-> ErrSyntax]
        ELSE [val |-> Norm(d), err |-> Nil]

\* strconv.ParseInt(s, 10, bitSize): an optional sign, then ParseUint, then
\* the range of the signed type
ParseInt(s, bitSize) ==
    IF s = "" THEN [val |-> Zero, err |-> ErrSyntax]
    ELSE
    LET bits == Width(bitSize)
        neg == Head(s) = "-"
        u == ParseUint(IF Head(s) \in {"+", "-"} THEN Tail(s) ELSE s, bitSize)
    IN  IF u.err = ErrSyntax THEN [val |-> Zero, err |-> ErrSyntax]
        ELSE IF ~neg /\ ~MagLess(u.val, Cutoff(bits))
             THEN [val |-> IntVal(FALSE, MaxInt(bits)), err |-> ErrRange]
        ELSE IF neg /\ MagLess(Cutoff(bits), u.val)
             THEN [val |-> IntVal(TRUE, Cutoff(bits)), err |-> ErrRange]
        ELSE [val |-> IntVal(neg, u.val), err |-> Nil]

\* strconv.ParseBool
ParseBool(s) ==
    IF s \in {"1", "t", "T", "TRUE", "true", "True"} THEN [val |-> TRUE, err |-> Nil]
    ELSE IF s \in {"0", "f", "F", "FALSE", "false", "False"} THEN [val |-> FALSE, err |-> Nil]
    ELSE [val |-> FALSE, err |-> ErrSyntax]

\* a digit string without its trailing zeros
RECURSIVE NormFrac(_)
NormFrac(d) ==
    IF d # "" /\ At(d, Len(d)) = "0" THEN NormFrac(SubSeq(d, 1, Len(d) - 1)) ELSE d

\* a float value: the decimal it is the nearest bits-wide float to
FloatVal(bits, neg, ip, fp) ==
    [bits |-> bits, neg |-> neg, int |-> Norm(ip), frac |-> NormFrac(fp)]

FloatZero(bits) == FloatVal(bits, FALSE, "0", "")

NaN == [nan |-> TRUE]

\* strconv.ParseFloat(s, bitSize) for decimal literals: an optional sign,
\* digits with an optional point, at least one digit.  Exponents,
\* hexadecimal literals, underscores, "inf" and "nan" are not modelled, and
\* no value of the model uses them or has enough digits to leave the range.
ParseFloat(s, bitSize) ==
    LET t == IF s # "" /\ Head(s) \in {"+", "-"} THEN Tail(s) ELSE s
        neg == s # "" /\ Head(s) = "-"
        ip == DigitRun(t)
        u == From(t, Len(ip) + 1)
        fp == IF u # "" /\ Head(u) = "." THEN DigitRun(Tail(u)) ELSE ""
        end == IF u # "" /\ Head(u) = "." THEN From(u, Len(fp) + 2) ELSE u
    IN  IF ip \o fp = "" \/ end # ""
        THEN [val |-> FloatZero(64), err |-> ErrSyntax]
        ELSE [val |-> FloatVal(bitSize, neg, IF ip = "" THEN "0" ELSE ip, fp), err |-> Nil]

\* float32(f64) of a value ParseFloat(s, 32) returned, and of the constant 0
Float32Of(f) == [f EXCEPT !.bits = 32]

----------------------------------------------------------------------------
(* time.ParseDuration.  A duration value is its sign, its whole seconds    *)
(* and the nanoseconds left over.                                          *)

ErrDuration == "time: invalid duration"

Billion == 1000000000

DurVal(neg, sec, nsec) == [neg |-> neg /\ (sec # 0 \/ nsec # 0), sec |-> sec, nsec |-> nsec]

\* the longest prefix of s that holds neither a digit nor a point
RECURSIVE UnitRun(_)
UnitRun(s) ==
    IF s # "" /\ ~IsDigit(Head(s)) /\ Head(s) # "."
    THEN Head(s) \o UnitRun(Tail(s))
    ELSE ""

\* time's unitMap, without the two spellings of the microsecond that are
\* not ASCII: the nanoseconds of a unit
UnitNanos(u) ==
    CASE u = "ns" -> 1
      [] u = "us" -> 1000
      [] u = "ms" -> 1000000
      [] u \in {"s", "m", "h"} -> Billion

\* the seconds of a unit of a second or more
UnitSeconds(u) ==
    CASE u = "s" -> 1 [] u = "m" -> 60 [] u = "h" -> 3600 [] OTHER -> 0

Units == {"ns", "us", "ms", "s", "m", "h"}

RECURSIVE Pow10(_)
Pow10(n) == IF n = 0 THEN 1 ELSE 10 * Pow10(n - 1)

\* the nanoseconds of the numeral ip.fp of unit u, as <<seconds, nanoseconds>>;
\* numerals of the model are short, so no product leaves the integers
Component(ip, fp, u) ==
    LET n == ToNat(ip)
        f == ToNat(fp)
        scale == Pow10(Len(fp))
    IN  IF UnitSeconds(u) > 0
        THEN LET whole == f * UnitSeconds(u)
             IN  <<n * UnitSeconds(u) + whole \div scale,
                   (whole % scale) * (Billion \div scale)>>
        ELSE <<n \div (Billion \div UnitNanos(u)),
               (n % (Billion \div UnitNanos(u))) * UnitNanos(u)
                   + (f * UnitNanos(u)) \div scale>>

AddDur(a, b) ==
    <<a[1] + b[1] + (a[2] + b[2]) \div Billion, (a[2] + b[2]) % Billion>>

\* the loop of ParseDuration over ([0-9]*(\.[0-9]*)?[a-z]+)+ : <<ok, sum>>
RECURSIVE DurationSum(_, _)
DurationSum(s, acc) ==
    IF s = "" THEN <<TRUE, acc>>
    ELSE
    LET ip == DigitRun(s)
        a == From(s, Len(ip) + 1)
        dot == a # "" /\ Head(a) = "."
        fp == IF dot THEN DigitRun(Tail(a)) ELSE ""
        b == IF dot THEN From(a, Len(fp) + 2) ELSE a
        u == UnitRun(b)
    IN  IF ip \o fp = "" \/ u \notin Units
        THEN <<FALSE, acc>>
        ELSE DurationSum(From(b, Len(u) + 1), AddDur(acc, Component(ip, fp, u)))

\* time.ParseDuration(s): [-+]?([0-9]*(\.[0-9]*)?[a-z]+)+, and "0"
ParseDuration(s) ==
    LET neg == s # "" /\ Head(s) = "-"
        t == IF s # "" /\ Head(s) \in {"+", "-"} THEN Tail(s) ELSE s
    IN  IF t = "0" THEN [val |-> DurVal(FALSE, 0, 0), err |-> Nil]
        ELSE IF t = "" THEN [val |-> DurVal(FALSE, 0, 0), err |-> ErrDuration]
        ELSE LET r == DurationSum(t, <<0, 0>>)
             IN  IF r[1]
                 THEN [val |-> DurVal(neg, r[2][1], r[2][2]), err |-> Nil]
                 ELSE [val |-> DurVal(FALSE, 0, 0), err |-> ErrDuration]

----------------------------------------------------------------------------
(* url.Parse, for strings without '?', '#', '%' and without an authority   *)
(* ("//"): no value of the model has them.                                 *)

ErrURL == "net/url: parse error"

NilURL == [nil |-> TRUE]

Letters == {"a", "b", "c", "d", "e", "f", "g", "h", "i", "j", "k", "l", "m",
            "n", "o", "p", "q", "r", "s", "t", "u", "v", "w", "x", "y", "z",
            "A", "B", "C", "D", "E", "F", "G", "H", "I", "J", "K", "L", "M",
            "N", "O", "P", "Q", "R", "S", "T", "U", "V", "W", "X", "Y", "Z"}

\* url.stringContainsCTLByte, over the characters of the model
ContainsCTLByte(s) == \E i \in 1..Len(s) : At(s, i) \in {"\t", "\n", "\r"}

\* url.getScheme: [ok, scheme, rest]; i is the index the scan is at
RECURSIVE GetScheme(_, _)
GetScheme(s, i) ==
    IF i > Len(s) THEN [ok |-> TRUE, scheme |-> "", rest |-> s]
    ELSE LET c == At(s, i)
         IN  IF c \in Letters THEN GetScheme(s, i + 1)
             ELSE IF IsDigit(c) \/ c \in {"+", "-", "."}
                  THEN IF i = 1 THEN [ok |-> TRUE, scheme |-> "", rest |-> s]
                       ELSE GetScheme(s, i + 1)
             ELSE IF c = ":"
                  THEN IF i = 1 THEN [ok |-> FALSE, scheme |-> "", rest |-> ""]
                       ELSE [ok |-> TRUE, scheme |-> SubSeq(s, 1, i - 1),
                             rest |-> From(s, i + 1)]
             ELSE [ok |-> TRUE, scheme |-> "", rest |-> s]

\* the first path segment of r: what comes before its first '/'
FirstSegment(r) ==
    IF Index(r, "/") = 0 THEN r ELSE SubSeq(r, 1, Index(r, "/") - 1)

\* url.Parse(s); the schemes of the model are lower case already
ParseURL(s) ==
    LET g == GetScheme(s, 1)
    IN  IF ContainsCTLByte(s) \/ ~g.ok THEN [val |-> NilURL, err |-> ErrURL]
        ELSE IF g.rest = "*" /\ g.scheme = ""
             THEN [val |-> [Scheme |-> "", Opaque |-> "", Path |-> "*"], err |-> Nil]
        ELSE IF ~HasPrefix(g.rest, "/") /\ g.scheme # ""
             THEN [val |-> [Scheme |-> g.scheme, Opaque |-> g.rest, Path |-> ""],
                   err |-> Nil]
        ELSE IF ~HasPrefix(g.rest, "/") /\ ContainsRune(FirstSegment(g.rest), ":")
             THEN [val |-> NilURL, err |-> ErrURL]
        ELSE [val |-> [Scheme |-> g.scheme, Opaque |-> "", Path |-> g.rest], err |-> Nil]

----------------------------------------------------------------------------
(* filepath.Clean, with '/' as the separator. *)

\* the elements of a path: the pieces between its separators
RECURSIVE Elements(_)
Elements(p) ==
    LET i == Index(p, "/")
    IN  IF i = 0 THEN <<p>> ELSE <<SubSeq(p, 1, i - 1)>> \o Elements(From(p, i + 1))

\* the elements Clean keeps, in order; kept is what it has kept so far
RECURSIVE CleanElements(_, _, _)
CleanElements(els, kept, rooted) ==
    IF els = <<>> THEN kept
    ELSE LET e == Head(els)
         IN  IF e \in {"", "."} THEN CleanElements(Tail(els), kept, rooted)
             ELSE IF e = ".."
                  THEN IF kept # <<>> /\ kept[Len(kept)] # ".."
                       THEN CleanElements(Tail(els), SubSeq(kept, 1, Len(kept) - 1), rooted)
                       ELSE IF rooted THEN CleanElements(Tail(els), kept, rooted)
                       ELSE CleanElements(Tail(els), Append(kept, ".."), rooted)
             ELSE CleanElements(Tail(els), Append(kept, e), rooted)

RECURSIVE JoinPath(_)
JoinPath(els) ==
    IF els = <<>> THEN ""
    ELSE IF Len(els) = 1 THEN els[1]
    ELSE els[1] \o "/" \o JoinPath(Tail(els))

\* filepath.Clean(p)
Clean(p) ==
    IF p = "" THEN "."
    ELSE LET rooted == Head(p) = "/"
             kept == JoinPath(CleanElements(Elements(p), <<>>, rooted))
         IN  IF rooted THEN "/" \o kept
             ELSE IF kept = "" THEN "."
             ELSE kept

----------------------------------------------------------------------------
(* net.ParseIP.  An IP value is the dotted fields of an IPv4 address or    *)
(* the eight groups of an IPv6 address.                                    *)

NilIP == [nil |-> TRUE]

\* one field of a dotted address: 1 to 3 digits, no leading zero, at most 255
IPv4Field(f) ==
    /\ f # ""
    /\ Len(f) <= 3
    /\ DigitRun(f) = f
    /\ Len(f) > 1 => Head(f) # "0"
    /\ ToNat(f) <= 255

\* the pieces of s between its c's
RECURSIVE Split(_, _)
Split(s, c) ==
    LET i == Index(s, c)
    IN  IF i = 0 THEN <<s>> ELSE <<SubSeq(s, 1, i - 1)>> \o Split(From(s, i + 1), c)

ParseIPv4(s) ==
    LET fs == Split(s, ".")
    IN  IF Len(fs) = 4 /\ \A i \in 1..4 : IPv4Field(fs[i])
        THEN [v |-> 4, b |-> [i \in 1..4 |-> ToNat(fs[i])]]
        ELSE NilIP

HexDigits == Digits \cup {"a", "b", "c", "d", "e", "f", "A", "B", "C", "D", "E", "F"}

\* one group of an IPv6 address: 1 to 4 hexadecimal digits
IPv6Group(g) == g # "" /\ Len(g) <= 4 /\ \A i \in 1..Len(g) : At(g, i) \in HexDigits

\* the groups of a colon-separated list, the empty list for ""
Groups(s) == IF s = "" THEN <<>> ELSE Split(s, ":")

\* the index of the first "::" of s, 0 when there is none
DoubleColon(s) ==
    IF \E i \in 1..(Len(s) - 1) : SubSeq(s, i, i + 1) = "::"
    THEN CHOOSE i \in 1..(Len(s) - 1) :
             /\ SubSeq(s, i, i + 1) = "::"
             /\ \A j \in 1..(i - 1) : SubSeq(s, j, j + 1) # "::"
    ELSE 0

\* an IPv6 address of hexadecimal groups, with at most one "::"; a dotted
\* tail and a zone are not modelled, and no value of the model has them
ParseIPv6(s) ==
    LET e == DoubleColon(s)
        left == IF e = 0 THEN Groups(s) ELSE Groups(SubSeq(s, 1, e - 1))
        right == IF e = 0 THEN <<>> ELSE Groups(From(s, e + 2))
        all == left \o right
    IN  IF /\ \A i \in 1..Len(all) : IPv6Group(all[i])
           /\ IF e = 0 THEN Len(all) = 8 ELSE Len(all) <= 7
        THEN [v |-> 6,
              b |-> left \o [i \in 1..(8 - Len(all)) |-> "0"] \o right]
        ELSE NilIP

\* net.ParseIP(s): dotted if a '.' comes before any ':', else colon-separated
ParseIP(s) ==
    LET dot == Index(s, ".")
        colon == Index(s, ":")
    IN  IF dot > 0 /\ (colon = 0 \/ dot < colon) THEN ParseIPv4(s)
        ELSE IF colon > 0 THEN ParseIPv6(s)
        ELSE NilIP

----------------------------------------------------------------------------
(* Time of day.  The accessor's code is not among the sources; it is       *)
(* modelled from its description and its tests: HH:MM, both halves base-10 *)
(* integers, 0 <= hour <= 23 and 0 <= minute <= 59.                        *)

TimeVal(h, mi) == [hour |-> h, minute |-> mi]

\* a range check that takes any base-10 integer
InRangeAnyInteger(p, max) == ParseInt(p, 0).err = Nil

\* a base-10 integer from 0 to max (a digit string)
InRange(p, max) ==
    LET r == ParseInt(p, 0)
    IN  r.err = Nil /\ ~r.val.neg /\ ~MagLess(max, r.val.mag)

ParseTimeOfDay(s) ==
    LET ps == Split(s, ":")
    IN  IF Len(ps) = 2 /\ InRange(ps[1], "23") /\ InRange(ps[2], "59")
        THEN [val |-> TimeVal(ToNat(ParseInt(ps[1], 0).val.mag),
                              ToNat(ParseInt(ps[2], 0).val.mag)),
              err |-> Nil]
        ELSE [val |-> TimeVal(0, 0), err |-> ErrParseValue]

----------------------------------------------------------------------------
(* Config: a Config is its map m, a function from keys to values. *)

\* a Set that stores the value trimmed
Config_SetTrimmed(c, key, val) ==
    [k \in DOMAIN c \cup {key} |-> IF k = key THEN TrimSpace(val) ELSE c[k]]

\* c.m[key] = val
Config_Set(c, key, val) ==
    [k \in DOMAIN c \cup {key} |-> IF k = key THEN val ELSE c[k]]

Config_String(c, key) ==
    IF key \notin DOMAIN c
    THEN [val |-> "", err |-> ErrKeyNotFound]
    ELSE [val |-> c[key], err |-> Nil]

\* the body every ...OrDefault method has: def and true on any error of the
\* accessor, else its value and false
OrDefault(r, def) ==
    IF r.err # Nil
    THEN [val |-> def, used |-> TRUE]
    ELSE [val |-> r.val, used |-> FALSE]

Config_StringOrDefault(c, key, def) == OrDefault(Config_String(c, key), def)

\* a Bool that reports a value it cannot parse as a missing key
Config_BoolNotFoundOnSyntax(c, key) ==
    LET str == Config_String(c, key)
    IN  IF str.err # Nil THEN [val |-> FALSE, err |-> str.err]
        ELSE IF ParseBool(str.val).err # Nil THEN [val |-> FALSE, err |-> ErrKeyNotFound]
        ELSE ParseBool(str.val)

Config_Bool(c, key) ==
    LET str == Config_String(c, key)
    IN  IF str.err # Nil THEN [val |-> FALSE, err |-> str.err]
        ELSE ParseBool(str.val)

Config_Float32(c, key) ==
    LET str == Config_String(c, key)
        f64 == ParseFloat(str.val, 32)
    IN  IF str.err # Nil THEN [val |-> FloatZero(32), err |-> str.err]
        ELSE IF f64.err # Nil THEN [val |-> FloatZero(32), err |-> f64.err]
        ELSE [val |-> Float32Of(f64.val), err |-> Nil]

Config_Float64(c, key) ==
    LET str == Config_String(c, key)
    IN  IF str.err # Nil THEN [val |-> NaN, err |-> str.err]
        ELSE ParseFloat(str.val, 64)

Config_Int(c, key) ==
    LET str == Config_String(c, key)
        i64 == ParseInt(str.val, 0)
    IN  IF str.err # Nil THEN [val |-> Zero, err |-> str.err]
        ELSE IF i64.err # Nil THEN [val |-> Zero, err |-> i64.err]
        ELSE [val |-> i64.val, err |-> Nil]

\* an Int32 that parses 64 bits and does not check the result against int32
Config_Int32Unchecked(c, key) ==
    LET str == Config_String(c, key)
        i64 == ParseInt(str.val, 64)
    IN  IF str.err # Nil THEN [val |-> Zero, err |-> str.err]
        ELSE IF i64.err # Nil THEN [val |-> Zero, err |-> i64.err]
        ELSE [val |-> i64.val, err |-> Nil]

Config_Int32(c, key) ==
    LET str == Config_String(c, key)
        i64 == ParseInt(str.val, 32)
    IN  IF str.err # Nil THEN [val |-> Zero, err |-> str.err]
        ELSE IF i64.err # Nil THEN [val |-> Zero, err |-> i64.err]
        ELSE [val |-> i64.val, err |-> Nil]

Config_Int64(c, key) ==
    LET str == Config_String(c, key)
    IN  IF str.err # Nil THEN [val |-> Zero, err |-> str.err]
        ELSE ParseInt(str.val, 64)

Config_Uint(c, key) ==
    LET str == Config_String(c, key)
        u64 == ParseUint(str.val, 0)
    IN  IF str.err # Nil THEN [val |-> Zero, err |-> str.err]
        ELSE IF u64.err # Nil THEN [val |-> Zero, err |-> u64.err]
        ELSE [val |-> IntVal(FALSE, u64.val), err |-> Nil]

Config_Uint32(c, key) ==
    LET str == Config_String(c, key)
        u64 == ParseUint(str.val, 32)
    IN  IF str.err # Nil THEN [val |-> Zero, err |-> str.err]
        ELSE IF u64.err # Nil THEN [val |-> Zero, err |-> u64.err]
        ELSE [val |-> IntVal(FALSE, u64.val), err |-> Nil]

Config_Uint64(c, key) ==
    LET str == Config_String(c, key)
        u64 == ParseUint(str.val, 64)
    IN  IF str.err # Nil THEN [val |-> Zero, err |-> str.err]
        ELSE [val |-> IntVal(FALSE, u64.val), err |-> u64.err]

\* a Duration that parses its value as Int64 does
Config_DurationAsInt64(c, key) == Config_Int64(c, key)

Config_Duration(c, key) ==
    LET str == Config_String(c, key)
    IN  IF str.err # Nil THEN [val |-> DurVal(FALSE, 0, 0), err |-> str.err]
        ELSE ParseDuration(str.val)

Config_URL(c, key) ==
    LET str == Config_String(c, key)
    IN  IF str.err # Nil THEN [val |-> NilURL, err |-> str.err]
        ELSE ParseURL(str.val)

\* a FilePath that takes the empty value for a failure
Config_FilePathRejectsEmpty(c, key) ==
    LET str == Config_String(c, key)
    IN  IF str.err # Nil THEN [val |-> "", err |-> str.err]
        ELSE IF str.val = "" THEN [val |-> "", err |-> ErrParseValue]
        ELSE [val |-> Clean(str.val), err |-> Nil]

Config_FilePath(c, key) ==
    LET str == Config_String(c, key)
    IN  IF str.err # Nil THEN [val |-> "", err |-> str.err]
        ELSE [val |-> Clean(str.val), err |-> Nil]

Config_IP(c, key) ==
    LET str == Config_String(c, key)
        val == ParseIP(str.val)
    IN  IF str.err # Nil THEN [val |-> NilIP, err |-> str.err]
        ELSE IF val = NilIP THEN [val |-> NilIP, err |-> ErrParseValue]
        ELSE [val |-> val, err |-> Nil]

Config_TimeOfDay(c, key) ==
    LET str == Config_String(c, key)
    IN  IF str.err # Nil THEN [val |-> TimeVal(0, 0), err |-> str.err]
        ELSE ParseTimeOfDay(str.val)

Config_BoolOrDefault(c, key, def) == OrDefault(Config_Bool(c, key), def)

Config_Float32OrDefault(c, key, def) == OrDefault(Config_Float32(c, key), def)

Config_Float64OrDefault(c, key, def) == OrDefault(Config_Float64(c, key), def)

\* an IntOrDefault that uses the default for a missing key only
Config_IntOrDefaultOnAbsentOnly(c, key, def) ==
    LET r == Config_Int(c, key)
    IN  IF r.err = ErrKeyNotFound
        THEN [val |-> def, used |-> TRUE]
        ELSE [val |-> r.val, used |-> FALSE]

Config_IntOrDefault(c, key, def) == OrDefault(Config_Int(c, key), def)

Config_Int32OrDefault(c, key, def) == OrDefault(Config_Int32(c, key), def)

Config_Int64OrDefault(c, key, def) == OrDefault(Config_Int64(c, key), def)

Config_UintOrDefault(c, key, def) == OrDefault(Config_Uint(c, key), def)

Config_Uint32OrDefault(c, key, def) == OrDefault(Config_Uint32(c, key), def)

Config_Uint64OrDefault(c, key, def) == OrDefault(Config_Uint64(c, key), def)

Config_DurationOrDefault(c, key, def) == OrDefault(Config_Duration(c, key), def)

Config_URLOrDefault(c, key, def) == OrDefault(Config_URL(c, key), def)

Config_FilePathOrDefault(c, key, def) == OrDefault(Config_FilePath(c, key), def)

Config_IPOrDefault(c, key, def) == OrDefault(Config_IP(c, key), def)

\* a TimeOfDayOrDefault that defaults each half by itself
Config_TimeOfDayOrDefaultByHalf(c, key, def) ==
    LET str == Config_String(c, key)
        ps == Split(str.val, ":")
        hourOk == str.err = Nil /\ Len(ps) = 2 /\ InRange(ps[1], "23")
        minuteOk == str.err = Nil /\ Len(ps) = 2 /\ InRange(ps[2], "59")
    IN  [val |-> TimeVal(IF hourOk THEN ToNat(ParseInt(ps[1], 0).val.mag) ELSE def.hour,
                         IF minuteOk THEN ToNat(ParseInt(ps[2], 0).val.mag) ELSE def.minute),
         used |-> ~(hourOk /\ minuteOk)]

Config_TimeOfDayOrDefault(c, key, def) == OrDefault(Config_TimeOfDay(c, key), def)

----------------------------------------------------------------------------
(* Calls on the Configs Read returned. *)

Types == {"String", "Bool", "Float32", "Float64", "Int", "Int32", "Int64", "Uint", "Uint32", "Uint64", "Duration", "URL", "FilePath", "IP", "TimeOfDay"}

\* the method T of Config c
Accessor(T, c, key) ==
    CASE T = "String" -> Config_String(c, key)
      [] T = "Bool" -> Config_Bool(c, key)
      [] T = "Float32" -> Config_Float32(c, key)
      [] T = "Float64" -> Config_Float64(c, key)
      [] T = "Int" -> Config_Int(c, key)
      [] T = "Int32" -> Config_Int32(c, key)
      [] T = "Int64" -> Config_Int64(c, key)
      [] T = "Uint" -> Config_Uint(c, key)
      [] T = "Uint32" -> Config_Uint32(c, key)
      [] T = "Uint64" -> Config_Uint64(c, key)
      [] T = "Duration" -> Config_Duration(c, key)
      [] T = "URL" -> Config_URL(c, key)
      [] T = "FilePath" -> Config_FilePath(c, key)
      [] T = "IP" -> Config_IP(c, key)
      [] T = "TimeOfDay" -> Config_TimeOfDay(c, key)

\* the method TOrDefault of Config c
AccessorOrDefault(T, c, key, def) ==
    CASE T = "String" -> Config_StringOrDefault(c, key, def)
      [] T = "Bool" -> Config_BoolOrDefault(c, key, def)
      [] T = "Float32" -> Config_Float32OrDefault(c, key, def)
      [] T = "Float64" -> Config_Float64OrDefault(c, key, def)
      [] T = "Int" -> Config_IntOrDefault(c, key, def)
      [] T = "Int32" -> Config_Int32OrDefault(c, key, def)
      [] T = "Int64" -> Config_Int64OrDefault(c, key, def)
      [] T = "Uint" -> Config_UintOrDefault(c, key, def)
      [] T = "Uint32" -> Config_Uint32OrDefault(c, key, def)
      [] T = "Uint64" -> Config_Uint64OrDefault(c, key, def)
      [] T = "Duration" -> Config_DurationOrDefault(c, key, def)
      [] T = "URL" -> Config_URLOrDefault(c, key, def)
      [] T = "FilePath" -> Config_FilePathOrDefault(c, key, def)
      [] T = "IP" -> Config_IPOrDefault(c, key, def)
      [] T = "TimeOfDay" -> Config_TimeOfDayOrDefault(c, key, def)

\* the default a caller passes to TOrDefault
Default(T) ==
    CASE T = "String" -> "def"
      [] T = "Bool" -> TRUE
      [] T = "Float32" -> FloatVal(32, FALSE, "9", "5")
      [] T = "Float64" -> FloatVal(64, FALSE, "9", "5")
      [] T \in {"Int", "Int32", "Int64"} -> IntVal(TRUE, "42")
      [] T \in {"Uint", "Uint32", "Uint64"} -> IntVal(FALSE, "42")
      [] T = "Duration" -> DurVal(FALSE, 540, 0)
      [] T = "URL" -> [Scheme |-> "d", Opaque |-> "ef", Path |-> ""]
      [] T = "FilePath" -> "./log.out"
      [] T = "IP" -> [v |-> 4, b |-> <<127, 0, 0, 1>>]
      [] T = "TimeOfDay" -> TimeVal(23, 59)

\* the defaults the callers pass to TOrDefault
Defaults(T) ==
    {Default(T)} \cup
        (IF T = "Int" THEN {IntVal(FALSE, "42"), IntVal(FALSE, "8086")} ELSE {})

\* the inputs the Configs are read from
\* the input of ExampleRead, as far as its "database" section
ExampleInput == "number = 1234\nevery = 3m20s\n\ndatabase:\n\tusername = admin\n\tport=5432"

\* values at and beyond the edges of what the typed accessors take
EdgeVals == {"-1234", "25:01", "13:70",
             "2147483647", "2147483648", "-2147483648", "-2147483649",
             "9223372036854775807", "9223372036854775808",
             "-9223372036854775808", "-9223372036854775809"}

ConfigInputs == {"k=+++", "j = 1\ns:\nk=-1\n", "#c\n\nk = 16h12m", "k=x\n?",
                 ExampleInput, "::\nk=v", "k ="}
                    \cup {"k=" \o v : v \in EdgeVals}

\* the keys Set is called with, and the values
SetKeys == {"k"}

SetVals == {"true", "-12", "12", "1.5", "1h2m", "a:b", "a/../b", "b",
            "1.2.3.4", "11:26", " x ", ""}

\* the keys the accessors are called with
GetKeys == {"k", "j", "number"}

InitConfig == \E t \in ConfigInputs, fails \in BOOLEAN : ReadInit(t, fails)

\* the caller holds the mapping Read returned
Ready == pc = "done" /\ res.err = Nil

\* a Set that writes the key in every Config of the mapping
SetAllSections(sec, key, val) ==
    /\ Ready
    /\ sec \in DOMAIN m
    /\ m' = [s \in DOMAIN m |-> Config_Set(m[s], key, val)]
    /\ setlog' = [p \in DOMAIN setlog \cup {<<sec, key>>} |->
                     IF p = <<sec, key>> THEN val ELSE setlog[p]]
    /\ out' = [op |-> "Set", sec |-> sec, key |-> key, arg |-> val]
    /\ UNCHANGED <<text, ioerr, rest, cfg, lnum, pc, res>>

\* cfgs[sec].Set(key, val)
Set(sec, key, val) ==
    /\ Ready
    /\ sec \in DOMAIN m
    /\ m' = [m EXCEPT ![sec] = Config_Set(m[sec], key, val)]
    /\ setlog' = [p \in DOMAIN setlog \cup {<<sec, key>>} |->
                     IF p = <<sec, key>> THEN val ELSE setlog[p]]
    /\ out' = [op |-> "Set", sec |-> sec, key |-> key, arg |-> val]
    /\ UNCHANGED <<text, ioerr, rest, cfg, lnum, pc, res>>

\* cfgs[sec].T(key)
Get(T, sec, key) ==
    /\ Ready
    /\ sec \in DOMAIN m
    /\ out' = [op |-> "Get", type |-> T, sec |-> sec, key |-> key,
               ret |-> Accessor(T, m[sec], key)]
    /\ UNCHANGED <<text, ioerr, rest, m, cfg, lnum, pc, res, setlog>>

\* a TOrDefault that looks a missing key up in the "" Config
GetOrDefaultFallback(T, sec, key, def) ==
    /\ Ready
    /\ sec \in DOMAIN m
    /\ out' = [op |-> "GetOrDefault", type |-> T, sec |-> sec, key |-> key,
               def |-> def,
               ret |-> AccessorOrDefault(T, IF key \in DOMAIN m[sec] THEN m[sec] ELSE m[""],
                                         key, def)]
    /\ UNCHANGED <<text, ioerr, rest, m, cfg, lnum, pc, res, setlog>>

\* a TOrDefault that stores a text under the key when it returns def
GetOrDefaultStores(T, sec, key, def) ==
    /\ Ready
    /\ sec \in DOMAIN m
    /\ out' = [op |-> "GetOrDefault", type |-> T, sec |-> sec, key |-> key,
               def |-> def, ret |-> AccessorOrDefault(T, m[sec], key, def)]
    /\ m' = IF AccessorOrDefault(T, m[sec], key, def).used
            THEN [m EXCEPT ![sec] = Config_Set(m[sec], key, "def")]
            ELSE m
    /\ UNCHANGED <<text, ioerr, rest, cfg, lnum, pc, res, setlog>>

\* cfgs[sec].TOrDefault(key, def)
GetOrDefault(T, sec, key, def) ==
    /\ Ready
    /\ sec \in DOMAIN m
    /\ out' = [op |-> "GetOrDefault", type |-> T, sec |-> sec, key |-> key,
               def |-> def, ret |-> AccessorOrDefault(T, m[sec], key, def)]
    /\ UNCHANGED <<text, ioerr, rest, m, cfg, lnum, pc, res, setlog>>

NextConfig ==
    \/ Next
    \/ \E sec \in DOMAIN m, key \in SetKeys, val \in SetVals : Set(sec, key, val)
    \/ \E T \in Types, sec \in DOMAIN m, key \in GetKeys : Get(T, sec, key)
    \/ \E T \in Types, sec \in DOMAIN m, key \in GetKeys :
          \E def \in Defaults(T) : GetOrDefault(T, sec, key, def)

SpecConfig == InitConfig /\ [][NextConfig]_vars

----------------------------------------------------------------------------
(* What the input says, line by line: the reference the claims about Read  *)
(* are stated against.                                                     *)

\* the raw lines of t: the pieces between its newlines
RECURSIVE RawLines(_)
RawLines(t) ==
    LET i == Index(t, "\n")
    IN  IF i = 0 THEN <<t>> ELSE <<SubSeq(t, 1, i - 1)>> \o RawLines(From(t, i + 1))

NumLines == Len(RawLines(text))

\* line i of the input, trimmed
TLine(i) == TrimSpace(RawLines(text)[i])

KindOf(l) ==
    IF isComment(l) \/ isEmpty(l) THEN "ignored"
    ELSE IF isKeyValue(l) THEN "keyvalue"
    ELSE IF isName(l) THEN "name"
    ELSE "unrecognized"

Kind(i) == KindOf(TLine(i))

MaxOf(S) == CHOOSE x \in S : \A y \in S : y <= x

MinOf(S) == CHOOSE x \in S : \A y \in S : x <= y

Unrecognized == {i \in 1..NumLines : Kind(i) = "unrecognized"}

Markers == {i \in 1..NumLines : Kind(i) = "name"}

KeyValues == {i \in 1..NumLines : Kind(i) = "keyvalue"}

KeyOf(i) == parseKeyValue(TLine(i)).key

ValueOf(i) == parseKeyValue(TLine(i)).value

\* the section that is current when line i is read
SectionAt(i) ==
    LET before == {j \in Markers : j < i}
    IN  IF before = {} THEN "" ELSE parseName(TLine(MaxOf(before)))

\* the key/value lines that assign k while s is the current section
Writes(s, k) == {i \in KeyValues : KeyOf(i) = k /\ SectionAt(i) = s}

\* Read has returned a mapping and no Set has been made since
ReadOk == pc = "done" /\ res.err = Nil /\ setlog = NoSets

----------------------------------------------------------------------------
(* C1: whenever the reader delivers the whole input and no line of it is   *)
(* Unrecognized, Read returns the mapping with no error and "" is one of   *)
(* its section names; and "" is in the map at every point of the scan,     *)
(* from before the first line is read.                                     *)
C1_DefaultSectionAlways ==
    /\ pc = "read" => "" \in DOMAIN m
    /\ (pc = "done" /\ ~ioerr /\ Unrecognized = {}) =>
           /\ res.err = Nil
           /\ res.cfgs = "m"
           /\ "" \in DOMAIN m

\* Read has returned for an input of only comment and blank lines
C1_Witness ==
    /\ pc = "done"
    /\ ~ioerr
    /\ NumLines >= 2
    /\ \A i \in 1..NumLines : Kind(i) = "ignored"
    /\ \E i \in 1..NumLines : isComment(TLine(i))
    /\ res.cfgs = "m"
    /\ DOMAIN m = {""}

(* C2: after a successful Read, each Config maps k to the value of the     *)
(* last key/value line with key k read while that Config's section was     *)
(* current, and has no k when there is no such line; every key/value line  *)
(* wrote into the section current at that line.                            *)
C2_LastWriteWins ==
    ReadOk =>
        /\ \A i \in KeyValues : SectionAt(i) \in DOMAIN m
        /\ \A s \in DOMAIN m :
              /\ \A k \in DOMAIN m[s] : Writes(s, k) # {}
              /\ \A i \in KeyValues :
                    SectionAt(i) = s =>
                        /\ KeyOf(i) \in DOMAIN m[s]
                        /\ m[s][KeyOf(i)] = ValueOf(MaxOf(Writes(s, KeyOf(i))))

\* a key assigned twice in one section, with different values, and once
\* more in another section
C2_Witness ==
    /\ ReadOk
    /\ \E s \in DOMAIN m, t \in DOMAIN m : \E k \in DOMAIN m[s] :
          /\ s # t
          /\ Cardinality(Writes(s, k)) >= 2
          /\ \E i \in Writes(s, k) : ValueOf(i) # m[s][k]
          /\ Writes(t, k) # {}

\* line j is a marker whose name an earlier marker already had
Reentry(j) ==
    /\ j \in Markers
    /\ \E i \in Markers : i < j /\ parseName(TLine(i)) = parseName(TLine(j))

(* C3: a name line whose section exists already leaves the map as it is    *)
(* and only makes that Config the current one; and no step of Read removes *)
(* a section, or a key from a section: what the first visit wrote is       *)
(* there after the second, changed only by a later key/value line.         *)
C3_ReentryKeepsConfig ==
    [][ /\ (/\ pc = "read"
            /\ Got.err # ErrIO
            /\ KindOf(Line) = "name"
            /\ parseName(Line) \in DOMAIN m)
           => (m' = m /\ cfg' = parseName(Line))
        /\ \A s \in DOMAIN m :
              /\ s \in DOMAIN m'
              /\ \A k \in DOMAIN m[s] :
                    /\ k \in DOMAIN m'[s]
                    /\ m'[s][k] # m[s][k] =>
                          /\ KindOf(Line) = "keyvalue"
                          /\ cfg = s
                          /\ parseKeyValue(Line) = [key |-> k, value |-> m'[s][k]]
      ]_vars

\* a section visited twice, with a key of the first visit only, and a key
\* assigned in both visits
C3_Witness ==
    /\ ReadOk
    /\ \E j \in Markers :
          /\ Reentry(j)
          /\ \E a \in KeyValues, b \in KeyValues :
                /\ a < j /\ j < b
                /\ SectionAt(a) = SectionAt(b)
                /\ KeyOf(a) = KeyOf(b)
                /\ ValueOf(a) # ValueOf(b)
                /\ m[SectionAt(b)][KeyOf(b)] = ValueOf(b)

(* C4: when some line of the input is Unrecognized, Read returns an error  *)
(* and a nil mapping, whatever came before that line.                      *)
C4_NoPartialResult ==
    (pc = "done" /\ Unrecognized # {}) => (res.err # Nil /\ res.cfgs = Nil)

\* an Unrecognized line after a key/value line and a name line were stored
C4_Witness ==
    /\ pc = "done"
    /\ res.cfgs = Nil
    /\ \E i \in Unrecognized :
          /\ \E a \in KeyValues : a < i
          /\ \E b \in Markers : b < i
    /\ Cardinality(DOMAIN m) >= 2
    /\ \E s \in DOMAIN m : m[s] # <<>>

\* the error Read returned is the one for an unrecognized line
Structural == pc = "done" /\ res.err \notin {Nil, ErrIO}

(* C5: the structural error names the 1-based index of the first           *)
(* Unrecognized line, every line of the input counted, and that line's     *)
(* trimmed text; Read has consumed the input up to the end of that line    *)
(* and nothing after it.                                                   *)
C5_ErrorNamesFirstBadLine ==
    Structural =>
        /\ Unrecognized # {}
        /\ LET f == MinOf(Unrecognized)
           IN  /\ res.err = "unrecognized input at line " \o ToString(f)
                                \o ": " \o TLine(f)
               /\ lnum = f
               /\ rest = (IF f = NumLines THEN ""
                          ELSE Join(SubSeq(RawLines(text), f + 1, NumLines)))

\* the first bad line is the third or later, after a comment and a blank
\* line, and another line follows it
C5_Witness ==
    /\ Structural
    /\ LET f == MinOf(Unrecognized)
       IN  /\ f >= 3
           /\ f < NumLines
           /\ \E i \in 1..(f - 1) : isComment(TLine(i))
           /\ \E i \in 1..(f - 1) : isEmpty(TLine(i))

----------------------------------------------------------------------------
(* The calls made on the Configs. *)

\* the last call was the accessor of some type
AfterGet == Ready /\ out # NoCall /\ out.op = "Get"

\* the last call was the OrDefault method of some type
AfterGetOrDefault == Ready /\ out # NoCall /\ out.op = "GetOrDefault"

\* the key of the last call is in the store of the Config it was made on
KeyPresent == out.key \in DOMAIN m[out.sec]

(* C6: the accessor of every type returns ErrKeyNotFound exactly when the  *)
(* key is absent from the Config's store; a value that is present and      *)
(* cannot be converted gives another error.                                *)
C6_KeyNotFoundIffAbsent ==
    AfterGet => ((out.ret.err = ErrKeyNotFound) <=> ~KeyPresent)

\* Bool was called on a key whose value is not a boolean
C6_Witness ==
    /\ AfterGet
    /\ out.type = "Bool"
    /\ KeyPresent
    /\ m[out.sec][out.key] = "+++"
    /\ out.ret.err \notin {Nil, ErrKeyNotFound}

\* the types whose conversion can fail
Fallible == Types \ {"String", "FilePath"}

(* C7: the accessor of every type whose conversion can fail returns        *)
(* ErrParseValue when the key is present and its value cannot be           *)
(* converted.                                                              *)
C7_ParseFailureIsErrParseValue ==
    (AfterGet /\ out.type \in Fallible /\ KeyPresent /\ out.ret.err # Nil)
        => out.ret.err = ErrParseValue

(* C8: TOrDefault(key, def) returns def and true exactly when T(key)       *)
(* returns an error, whichever error it is, and the value of T(key) and    *)
(* false exactly when T(key) returns no error; it returns no error.        *)
C8_OrDefaultIffError ==
    AfterGetOrDefault =>
        LET r == Accessor(out.type, m[out.sec], out.key)
        IN  /\ DOMAIN out.ret = {"val", "used"}
            /\ out.ret.used = (r.err # Nil)
            /\ r.err # Nil => out.ret.val = out.def
            /\ r.err = Nil => out.ret.val = r.val

\* IntOrDefault was called on a key whose value is not an integer
C8_Witness ==
    /\ AfterGetOrDefault
    /\ out.type = "Int"
    /\ KeyPresent
    /\ Config_Int(m[out.sec], out.key).err = ErrSyntax
    /\ out.ret = [val |-> Default("Int"), used |-> TRUE]

\* what String(key) of section sec must return: the last value Set, else the
\* value Read parsed
Expected(sec, key) ==
    IF <<sec, key>> \in DOMAIN setlog
    THEN [val |-> setlog[<<sec, key>>], err |-> Nil]
    ELSE IF Writes(sec, key) # {}
    THEN [val |-> ValueOf(MaxOf(Writes(sec, key))), err |-> Nil]
    ELSE [val |-> "", err |-> ErrKeyNotFound]

(* C9: every call of String(k) after Read, whatever calls came before it, *)
(* returns the argument of the most recent Set(k, v) as it was given, or  *)
(* the value Read parsed when k was never Set; and no step removes a key  *)
(* from a Config.                                                          *)
C9_StringReturnsLastSet ==
    /\ [](AfterGet /\ out.type = "String" => out.ret = Expected(out.sec, out.key))
    /\ [][\A sec \in DOMAIN m :
             sec \in DOMAIN m' /\ DOMAIN m[sec] \subseteq DOMAIN m'[sec]]_vars

\* String returned a value with spaces around it, Set over the value Read
\* had parsed for the key
C9_Witness ==
    /\ AfterGet
    /\ out.type = "String"
    /\ Writes(out.sec, out.key) # {}
    /\ <<out.sec, out.key>> \in DOMAIN setlog
    /\ setlog[<<out.sec, out.key>>] = " x "
    /\ out.ret = [val |-> " x ", err |-> Nil]

\* a canonical string of each type and the value it stands for
Canon ==
    {[type |-> "String", s |-> " x ", val |-> " x "],
     [type |-> "Bool", s |-> "true", val |-> TRUE],
     [type |-> "Float32", s |-> "1.5", val |-> FloatVal(32, FALSE, "1", "5")],
     [type |-> "Float64", s |-> "1.5", val |-> FloatVal(64, FALSE, "1", "5")],
     [type |-> "Int", s |-> "-12", val |-> IntVal(TRUE, "12")],
     [type |-> "Int32", s |-> "-12", val |-> IntVal(TRUE, "12")],
     [type |-> "Int64", s |-> "-12", val |-> IntVal(TRUE, "12")],
     [type |-> "Uint", s |-> "12", val |-> IntVal(FALSE, "12")],
     [type |-> "Uint32", s |-> "12", val |-> IntVal(FALSE, "12")],
     [type |-> "Uint64", s |-> "12", val |-> IntVal(FALSE, "12")],
     [type |-> "Duration", s |-> "1h2m", val |-> DurVal(FALSE, 3720, 0)],
     [type |-> "URL", s |-> "a:b", val |-> [Scheme |-> "a", Opaque |-> "b", Path |-> ""]],
     [type |-> "FilePath", s |-> "b", val |-> "b"],
     [type |-> "IP", s |-> "1.2.3.4", val |-> [v |-> 4, b |-> <<1, 2, 3, 4>>]],
     [type |-> "TimeOfDay", s |-> "11:26", val |-> TimeVal(11, 26)]}

\* the Config that holds nothing but key with the string s
Only(key, s) == Config_Set(<<>>, key, s)

(* C10: after Set(key, s) with s a canonical string of type T, T(key)      *)
(* returns the value s stands for and no error; and what an accessor       *)
(* returns for a key depends on nothing but the string stored for it.      *)
C10_RoundTrip ==
    AfterGet =>
        /\ \A c \in Canon :
              (/\ c.type = out.type
               /\ <<out.sec, out.key>> \in DOMAIN setlog
               /\ setlog[<<out.sec, out.key>>] = c.s)
                  => out.ret = [val |-> c.val, err |-> Nil]
        /\ KeyPresent =>
              out.ret = Accessor(out.type, Only(out.key, m[out.sec][out.key]), out.key)

\* Duration was called after Set(key, "1h2m") and returned 1h2m
C10_Witness ==
    /\ AfterGet
    /\ out.type = "Duration"
    /\ <<out.sec, out.key>> \in DOMAIN setlog
    /\ setlog[<<out.sec, out.key>>] = "1h2m"
    /\ out.ret = [val |-> DurVal(FALSE, 3720, 0), err |-> Nil]

(* C11: Read of the example input returns exactly the sections "" with     *)
(* number = 1234 and every = 3m20s, and "database" with username = admin   *)
(* and port = 5432; IntOrDefault("number", 42) on "" returns 1234 and      *)
(* false, IntOrDefault("number", 8086) on "database" returns 8086 and      *)
(* true: a key missing from a named section is not looked up in "".        *)
C11_ExampleScenario ==
    (Ready /\ text = ExampleInput) =>
        /\ setlog = NoSets =>
              /\ DOMAIN m = {"", "database"}
              /\ DOMAIN m[""] = {"number", "every"}
              /\ m[""]["number"] = "1234" /\ m[""]["every"] = "3m20s"
              /\ DOMAIN m["database"] = {"username", "port"}
              /\ m["database"]["username"] = "admin" /\ m["database"]["port"] = "5432"
        /\ (AfterGetOrDefault /\ out.type = "Int" /\ out.key = "number") =>
              /\ out.sec = "" => out.ret = [val |-> IntVal(FALSE, "1234"), used |-> FALSE]
              /\ out.sec = "database" => out.ret = [val |-> out.def, used |-> TRUE]

\* IntOrDefault("number", 8086) was called on "database" and returned 8086, true
C11_Witness ==
    /\ text = ExampleInput
    /\ AfterGetOrDefault
    /\ out.type = "Int" /\ out.key = "number" /\ out.sec = "database"
    /\ out.def = IntVal(FALSE, "8086")
    /\ "number" \in DOMAIN m[""]
    /\ out.ret = [val |-> IntVal(FALSE, "8086"), used |-> TRUE]

(* C12: after a successful Read the "" Config holds only pairs of          *)
(* key/value lines that come before the first name line of the input.      *)
C12_DefaultOnlyBeforeFirstMarker ==
    ReadOk =>
        \A k \in DOMAIN m[""] :
            \E i \in KeyValues :
                /\ KeyOf(i) = k
                /\ ValueOf(i) = m[""][k]
                /\ \A j \in Markers : i < j

\* what Read has returned in this run: the map, or nil and the error
Returned == [cfgs |-> IF res.err = Nil THEN m ELSE Nil, err |-> res.err]

\* two outcomes of Read agree: both succeed with equal maps, or both fail
SameOutcome(a, b) ==
    \/ a.err = Nil /\ b.err = Nil /\ a.cfgs = b.cfgs
    \/ a.err # Nil /\ b.err # Nil

\* a line with the spaces and tabs taken out at its start and end, on both
\* sides of its first '=', and between a name and its closing ':'
SqueezeLine(l) ==
    LET t == TrimSpace(l)
        i == Index(t, "=")
    IN  IF isComment(t) THEN t
        ELSE IF i > 0
        THEN TrimRightSpace(SubSeq(t, 1, i - 1)) \o "=" \o TrimLeftSpace(From(t, i + 1))
        ELSE IF HasSuffix(t, ":")
        THEN TrimRightSpace(SubSeq(t, 1, Len(t) - 1)) \o ":"
        ELSE t

\* an input with every line squeezed
Squeeze(t) == Join([i \in 1..Len(RawLines(t)) |-> SqueezeLine(RawLines(t)[i])])

(* C13: an input and the input with the spaces and tabs around its names,  *)
(* keys and values taken out give the same outcome of Read; so do any two  *)
(* inputs that differ in such spaces and tabs only.                        *)
C13_WhitespaceIgnored ==
    (pc = "done" /\ setlog = NoSets) =>
        /\ Returned = ReadAll(text, ioerr)
        /\ SameOutcome(Returned, ReadAll(Squeeze(text), ioerr))

(* C14: no Config that Read returns has an empty key or an empty value.    *)
C14_NoEmptyKeyOrValue ==
    ReadOk =>
        \A sec \in DOMAIN m : \A k \in DOMAIN m[sec] : k # "" /\ m[sec][k] # ""

(* C15: Uint, Uint32 and Uint64 on a key whose value starts with '-'       *)
(* return ErrParseValue, never a value and no error.                       *)
C15_UnsignedRejectsNegative ==
    (/\ AfterGet
     /\ out.type \in {"Uint", "Uint32", "Uint64"}
     /\ KeyPresent
     /\ HasPrefix(m[out.sec][out.key], "-"))
        => out.ret.err = ErrParseValue

\* n in two digits
TwoDigits(n) == IF n < 10 THEN "0" \o ToString(n) ELSE ToString(n)

\* the strings HH:MM of the times of a day, with and without leading zeros
TimeStrings ==
    {TwoDigits(h) \o ":" \o TwoDigits(mi) : h \in 0..23, mi \in 0..59}
        \cup {ToString(h) \o ":" \o ToString(mi) : h \in 0..23, mi \in 0..59}

\* the value stored for the key of the last call
Stored == m[out.sec][out.key]

(* C16: TimeOfDay succeeds only on a value HH:MM with 0 <= HH <= 23 and    *)
(* 0 <= MM <= 59, and then returns HH and MM; "11:26" gives 11, 26 and no  *)
(* error, "25:01", "13:70" and values that are not numbers give an error.  *)
C16_TimeOfDayRange ==
    (AfterGet /\ out.type = "TimeOfDay" /\ KeyPresent) =>
        /\ out.ret.err = Nil =>
              /\ Stored \in TimeStrings
              /\ out.ret.val.hour \in 0..23 /\ out.ret.val.minute \in 0..59
              /\ Stored \in {TwoDigits(out.ret.val.hour) \o ":" \o TwoDigits(out.ret.val.minute),
                              ToString(out.ret.val.hour) \o ":" \o ToString(out.ret.val.minute)}
        /\ Stored = "11:26" => out.ret = [val |-> TimeVal(11, 26), err |-> Nil]
        /\ Stored \in {"25:01", "13:70", "+++", "true", "a:b", "1h2m", "-1234"} =>
              out.ret.err # Nil

\* TimeOfDay was called on the value "25:01" and returned an error
C16_Witness ==
    /\ AfterGet /\ out.type = "TimeOfDay" /\ KeyPresent
    /\ Stored = "25:01"
    /\ out.ret.err # Nil

(* C17: TimeOfDayOrDefault returns the default hour, the default minute    *)
(* and true when the key is absent or its value is not a time of day, and  *)
(* the hour and minute of the value and false otherwise; never the hour    *)
(* of the one with the minute of the other.                                *)
C17_TimeOfDayDefaultsTogether ==
    (AfterGetOrDefault /\ out.type = "TimeOfDay") =>
        IF KeyPresent /\ Stored \in TimeStrings
        THEN /\ out.ret.used = FALSE
             /\ out.ret.val = Config_TimeOfDay(m[out.sec], out.key).val
             /\ Stored = "11:26" => out.ret.val = TimeVal(11, 26)
        ELSE out.ret = [val |-> out.def, used |-> TRUE]

\* TimeOfDayOrDefault was called on "13:70", whose hour alone is valid, and
\* returned the default hour and minute
C17_Witness ==
    /\ AfterGetOrDefault /\ out.type = "TimeOfDay" /\ KeyPresent
    /\ Stored = "13:70"
    /\ out.def = TimeVal(23, 59)
    /\ out.ret = [val |-> TimeVal(23, 59), used |-> TRUE]

\* integers in base 10, and whether each is an int32 and an int64
IntCases ==
    {[s |-> "12", in32 |-> TRUE, in64 |-> TRUE],
     [s |-> "-12", in32 |-> TRUE, in64 |-> TRUE],
     [s |-> "-1234", in32 |-> TRUE, in64 |-> TRUE],
     [s |-> "2147483647", in32 |-> TRUE, in64 |-> TRUE],
     [s |-> "2147483648", in32 |-> FALSE, in64 |-> TRUE],
     [s |-> "-2147483648", in32 |-> TRUE, in64 |-> TRUE],
     [s |-> "-2147483649", in32 |-> FALSE, in64 |-> TRUE],
     [s |-> "9223372036854775807", in32 |-> FALSE, in64 |-> TRUE],
     [s |-> "9223372036854775808", in32 |-> FALSE, in64 |-> FALSE],
     [s |-> "-9223372036854775808", in32 |-> FALSE, in64 |-> TRUE],
     [s |-> "-9223372036854775809", in32 |-> FALSE, in64 |-> FALSE]}

\* values that are no integer in base 10
NotIntegers == {"", " x ", "+++", "true", "1.5", "1h2m", "a:b", "11:26", "1.2.3.4"}

\* an integer value as a numeral
Numeral(v) == (IF v.neg THEN "-" ELSE "") \o v.mag

(* C18: Int32 succeeds exactly on the base-10 integers from -2^31 to       *)
(* 2^31-1 and Int64 exactly on those from -2^63 to 2^63-1; a success       *)
(* returns the integer that is stored, and an integer out of range or a    *)
(* value that is no integer returns an error.                              *)
C18_SignedRangeChecked ==
    (AfterGet /\ out.type \in {"Int32", "Int64"} /\ KeyPresent) =>
        /\ out.ret.err = Nil => Numeral(out.ret.val) = Stored
        /\ \A c \in IntCases :
              Stored = c.s =>
                 ((out.ret.err = Nil) <=> (IF out.type = "Int32" THEN c.in32 ELSE c.in64))
        /\ Stored \in NotIntegers => out.ret.err # Nil

\* Int32 was called on 2^31 and returned an error
C18_Witness ==
    /\ AfterGet /\ out.type = "Int32" /\ KeyPresent
    /\ Stored = "2147483648"
    /\ out.ret.err = ErrRange

WholeLines == 1..(NumLines - 1)

(* C20: when the reader fails with an error other than io.EOF and no line  *)
(* read before that is unrecognized, Read returns nil and the reader's     *)
(* error, not an unrecognized-input error; and Read returns the reader's   *)
(* error in no other case.                                                 *)
C20_StreamErrorPropagates ==
    pc = "done" =>
        /\ (ioerr /\ \A i \in WholeLines : Kind(i) # "unrecognized") =>
               res = [cfgs |-> Nil, err |-> ErrIO]
        /\ res.err = ErrIO => ioerr

\* the reader failed after two valid lines, one of them stored, with text
\* read that is no valid line, and Read returned the reader's error
C20_Witness ==
    /\ pc = "done"
    /\ ioerr
    /\ NumLines = 3
    /\ Kind(1) = "keyvalue" /\ Kind(2) = "name"
    /\ Kind(3) = "unrecognized"
    /\ m[""] # <<>>
    /\ res = [cfgs |-> Nil, err |-> ErrIO]

(* C21: for an input that does not end in a newline, Read returns what it  *)
(* returns for the input followed by a newline: the same map, or the same  *)
(* unrecognized-input error with the same line number and text.            *)
C21_FinalNewlineOptional ==
    (pc = "done" /\ ~ioerr /\ ~HasSuffix(text, "\n")) =>
        Returned = ReadAll(text \o "\n", FALSE)

\* Read has stored the pair of a last line that no newline ends
C21_Witness ==
    /\ ReadOk
    /\ NumLines >= 2
    /\ Kind(NumLines) = "keyvalue"
    /\ Writes(SectionAt(NumLines), KeyOf(NumLines)) = {NumLines}
    /\ m[SectionAt(NumLines)][KeyOf(NumLines)] = ValueOf(NumLines)

\* the names of the name lines of the input
MarkerNames == {parseName(TLine(i)) : i \in Markers}

(* C22: after a successful Read the sections are "" and the names of the   *)
(* name lines of the input, one Config each; a name line makes its Config  *)
(* though no key/value line follows it, and that Config is then empty.     *)
C22_SectionsAreMarkerNames ==
    ReadOk =>
        /\ DOMAIN m = {""} \cup MarkerNames
        /\ \A s \in DOMAIN m :
              (\A i \in KeyValues : SectionAt(i) # s) => m[s] = <<>>

\* Read has returned three Configs, the last one made by the last line and
\* empty
C22_Witness ==
    /\ ReadOk
    /\ Kind(NumLines) = "name"
    /\ Cardinality(DOMAIN m) = 3
    /\ \A i \in Markers : i < NumLines => parseName(TLine(i)) # parseName(TLine(NumLines))
    /\ m[parseName(TLine(NumLines))] = <<>>

\* Read is about to classify a line that the reader has delivered
Classifying == pc = "read" /\ Got.err # ErrIO

(* C23: a line that starts with '#' is ignored though it contains '=' or   *)
(* ends in ':'; a line of three or more characters that contains '=' and   *)
(* does not start with '#' is stored as a key/value pair though it ends in *)
(* ':', the ':' stays in the value and the current section stays.          *)
C23_ClassificationOrder ==
    /\ [][(Classifying /\ HasPrefix(Line, "#")) =>
              (m' = m /\ cfg' = cfg /\ res'.err = Nil)]_vars
    /\ [][(Classifying /\ ~HasPrefix(Line, "#") /\ ContainsRune(Line, "=")
                /\ Len(Line) >= 3) =>
              /\ cfg' = cfg
              /\ DOMAIN m' = DOMAIN m
              /\ parseKeyValue(Line).key \in DOMAIN m'[cfg]
              /\ m'[cfg][parseKeyValue(Line).key] = parseKeyValue(Line).value
              /\ res'.err = Nil]_vars
    /\ [](ReadOk /\ text = "#a=b\n#s:" => m = [n \in {""} |-> <<>>])
    /\ [](ReadOk /\ text = "k=v:" => m = [n \in {""} |-> [k \in {"k"} |-> "v:"]])

\* Read has ignored "#s:" and stored v: under k in the "" Config
C23_Witness ==
    /\ ReadOk
    /\ text = "#s:\nk=v:"
    /\ DOMAIN m = {""}
    /\ m[""] = [k \in {"k"} |-> "v:"]

\* line has the character c somewhere
Has(line, c) == \E i \in 1..Len(line) : At(line, i) = c

(* C24: a line is a key/value line exactly when it contains '=' and has    *)
(* three or more characters, and a name line exactly when it ends in ':'   *)
(* and has two or more; Read of the line "=", "a=", "=b" or ":" fails with *)
(* the unrecognized-input error.                                           *)
C24_DegenerateLinesUnrecognized ==
    /\ pc = "read" =>
           /\ isKeyValue(Line) <=> (Has(Line, "=") /\ Len(Line) >= 3)
           /\ isName(Line) <=> (Len(Line) >= 2 /\ At(Line, Len(Line)) = ":")
    /\ (pc = "done" /\ TLine(1) \in {"=", "a=", "=b", ":"} /\ (~ioerr \/ NumLines > 1)) =>
           res = [cfgs |-> Nil, err |-> ErrUnrecognized(1, TLine(1))]

\* Read has failed on the line "a="
C24_Witness ==
    /\ pc = "done"
    /\ text = "a="
    /\ ~ioerr
    /\ res = [cfgs |-> Nil, err |-> "unrecognized input at line 1: a="]

\* key/value lines and the key and value of each
KeyValueCases ==
    {[line |-> "a=b=c", key |-> "a", value |-> "b=c"],
     [line |-> "x = y", key |-> "x", value |-> "y"],
     [line |-> "true = false", key |-> "true", value |-> "false"],
     [line |-> "k=v:", key |-> "k", value |-> "v:"]}

\* the index of the first '=' of a line that has one
FirstEq(l) == CHOOSE p \in 1..Len(l) : At(l, p) = "=" /\ \A q \in 1..(p - 1) : At(l, q) # "="

(* C25: the key of a key/value line is the text before its first '=' less *)
(* the whitespace at its end, and has no '='; the value is all the text    *)
(* after the first '=' less the whitespace at its start, further '='       *)
(* included: "a=b=c" gives the key a and the value b=c.                    *)
C25_SplitAtFirstEquals ==
    ReadOk =>
        /\ \A s \in DOMAIN m : \A k \in DOMAIN m[s] : ~Has(k, "=")
        /\ \A i \in KeyValues :
              LET l == TLine(i)
                  key == TrimRightSpace(SubSeq(l, 1, FirstEq(l) - 1))
              IN  /\ key \in DOMAIN m[SectionAt(i)]
                  /\ i = MaxOf(Writes(SectionAt(i), key)) =>
                        m[SectionAt(i)][key] = TrimLeftSpace(From(l, FirstEq(l) + 1))
                  /\ \A c \in KeyValueCases :
                        l = c.line => m[SectionAt(i)][c.key] = c.value

\* Read has stored b=c under a for the line a=b=c
C25_Witness ==
    /\ ReadOk
    /\ text = "a=b=c"
    /\ m = [n \in {""} |-> [k \in {"a"} |-> "b=c"]]

\* n is l less every ':' and whitespace character at its end
StripsTo(n, l) ==
    /\ Len(n) <= Len(l)
    /\ SubSeq(l, 1, Len(n)) = n
    /\ \A i \in (Len(n) + 1)..Len(l) : At(l, i) = ":" \/ IsSpace(At(l, i))
    /\ Len(n) > 0 => ~(At(n, Len(n)) = ":" \/ IsSpace(At(n, Len(n))))

(* C26: the name of a name line is the line less every ':' and whitespace  *)
(* character at its end, with nothing taken from its start or its middle:  *)
(* "bar :" gives bar, "baz buz:" gives baz buz, "a:b:" gives a:b.          *)
C26_NameStripsTrailing ==
    /\ [][(Classifying /\ ~HasPrefix(Line, "#") /\ ~Has(Line, "=")
                /\ Len(Line) >= 2 /\ At(Line, Len(Line)) = ":") =>
              (StripsTo(cfg', Line) /\ cfg' \in DOMAIN m')]_vars
    /\ [](ReadOk /\ text = "bar :" => DOMAIN m = {"", "bar"})
    /\ [](ReadOk /\ text = "baz buz:" => DOMAIN m = {"", "baz buz"})
    /\ [](ReadOk /\ text = "a:b:" => DOMAIN m = {"", "a:b"})
    /\ [](ReadOk /\ text = "s: :" => DOMAIN m = {"", "s"})

\* Read has made the Config baz buz for the line "baz buz:"
C26_Witness ==
    /\ ReadOk
    /\ text = "baz buz:"
    /\ cfg = "baz buz"
    /\ DOMAIN m = {"", "baz buz"}

\* the lines ls joined, less the comment lines and the empty lines
RECURSIVE Strip(_)
Strip(ls) ==
    IF ls = <<>> THEN ""
    ELSE IF HasPrefix(TrimSpace(Head(ls)), "#") \/ TrimSpace(Head(ls)) = ""
         THEN Strip(Tail(ls))
    ELSE Head(ls) \o "\n" \o Strip(Tail(ls))

(* C27: a comment line or an empty line changes neither the mapping nor    *)
(* the current Config, so an input Read accepts and the same input less    *)
(* its comment and empty lines give equal mappings.                        *)
C27_IgnoredLinesChangeNothing ==
    /\ [][(Classifying /\ (HasPrefix(Line, "#") \/ Line = "")) =>
              (m' = m /\ cfg' = cfg)]_vars
    /\ [](ReadOk => m = ReadAll(Strip(RawLines(text)), FALSE).cfgs)

\* Read has accepted an input with a comment line and an empty line
\* between a name line and a key/value line
C27_Witness ==
    /\ ReadOk
    /\ NumLines = 4
    /\ TLine(1) = "s:"
    /\ TLine(2) = "#c"
    /\ TLine(3) = ""
    /\ TLine(4) = "k=v"
    /\ m = [n \in {"", "s"} |-> IF n = "s" THEN [k \in {"k"} |-> "v"] ELSE <<>>]

\* the step is a call of an accessor T or TOrDefault
AccessorStep == Ready /\ out'.op \in {"Get", "GetOrDefault"}

\* what the call recorded in out' returns when it is made again after the step
Again ==
    IF out'.op = "Get"
    THEN Accessor(out'.type, m'[out'.sec], out'.key)
    ELSE AccessorOrDefault(out'.type, m'[out'.sec], out'.key, out'.def)

(* C28: no accessor T or TOrDefault changes the Config: the store is the   *)
(* same after the call as before it, a TOrDefault that returns def does    *)
(* not store it (String of the key gives afterwards what it gave before),  *)
(* and the same call made again returns the same result.                   *)
C28_AccessorsDoNotModify ==
    [][AccessorStep =>
          /\ m' = m
          /\ setlog' = setlog
          /\ Config_String(m'[out'.sec], out'.key) = Config_String(m[out'.sec], out'.key)
          /\ Again = out'.ret]_vars

\* IntOrDefault has returned its default for a key that is absent, and the
\* key is still absent
C28_Witness ==
    /\ AfterGetOrDefault
    /\ out.type = "Int"
    /\ out.key = "j"
    /\ out.ret = [val |-> out.def, used |-> TRUE]
    /\ setlog = NoSets
    /\ Config_String(m[out.sec], "j").err = ErrKeyNotFound

\* the step is a call of Set
SetStep == Ready /\ out'.op = "Set"

Trimmed(s) == Len(s) > 0 => (~IsSpace(At(s, 1)) /\ ~IsSpace(At(s, Len(s))))

(* C30: in the Configs Read returns, every key and every value is without  *)
(* whitespace at its start and at its end, and no key has a '='.           *)
C30_StoredTextTrimmed ==
    ReadOk =>
        \A s \in DOMAIN m : \A k \in DOMAIN m[s] :
            /\ Trimmed(k)
            /\ Trimmed(m[s][k])
            /\ \A i \in 1..Len(k) : At(k, i) # "="

\* Read has stored k -> w and j -> v from lines with whitespace around the
\* key and the value
C30_Witness ==
    /\ ReadOk
    /\ text = " k = w \nj\t=\tv"
    /\ m = [n \in {""} |-> [k \in {"k", "j"} |-> IF k = "k" THEN "w" ELSE "v"]]

====
